---------------------------- MODULE Spec2Model ----------------------------
(***************************************************************************)
(* RingBuffer<T, Capacity> of ringbuffer.hpp: a fixed-capacity single-     *)
(* producer/single-consumer circular buffer.  Every operation is modelled  *)
(* at the granularity of its atomic cursor loads, slot construct / move /  *)
(* destroy steps and cursor stores.  The acquire/release pairs on the two  *)
(* cursors order the slot accesses they guard, so the steps of the two     *)
(* threads interleave sequentially consistently.                           *)
(***************************************************************************)
EXTENDS Integers, Sequences, FiniteSets

\* ------------------------------------------------------------------ bounds
\* Capacities up to 2^MaxCapLog are instantiated.
MaxCapLog == 2
\* The producer's source holds the values 0 .. MaxItems-1.
MaxItems == 4
\* WriteBatch / ReadBatch are called with count in 0 .. MaxBatch.
MaxBatch == 2

\* ------------------------------------------------------- program constants
\* static_assert(Capacity <= 1024*1024*1024)
CapacityLimit == 1073741824

RECURSIVE Pow2(_)
Pow2(n) == IF n = 0 THEN 1 ELSE 2 * Pow2(n - 1)

\* Bitwise AND of two naturals (size_t operands of operator&).
RECURSIVE BitAnd(_, _)
BitAnd(a, b) ==
    IF a = 0 \/ b = 0 THEN 0
    ELSE (IF a % 2 = 1 /\ b % 2 = 1 THEN 1 ELSE 0) + 2 * BitAnd(a \div 2, b \div 2)

\* The three static_asserts of the class: the capacities that compile.
CapacityAccepted(c) ==
    /\ c > 0
    /\ BitAnd(c, c - 1) = 0
    /\ c <= CapacityLimit

Capacities == {c \in 0 .. Pow2(MaxCapLog) : CapacityAccepted(c)}

Threads == {"producer", "consumer"}
Other(t) == IF t = "producer" THEN "consumer" ELSE "producer"

\* ------------------------------------------------------------ slot storage
\* buffer_[i] is raw aligned storage: it holds no object ("dead"), a
\* constructed T ("live") or a T that has been moved from and not yet
\* destroyed ("moved").
DeadSlot == [st |-> "dead", val |-> 0]
LiveSlot(v) == [st |-> "live", val |-> v]
MovedSlot == [st |-> "moved", val |-> 0]

\* The values a T can carry: the producer's and one value it never writes.
Values == 0 .. MaxItems

\* What std::move(*reinterpret_cast<T*>(&slot)) can yield: the element of a
\* live slot; anything at all from storage that holds no live element
\* (undefined behaviour).
SlotRead(s) == IF s.st = "live" THEN {s.val} ELSE Values

VARIABLES
    Capacity,     \* template parameter
    buffer_,      \* [0 .. Capacity-1 -> slot]
    readIndex_,   \* std::atomic<size_t>
    writeIndex_,  \* std::atomic<size_t>
    alive,        \* the RingBuffer object's lifetime has not ended
    pc,           \* [Threads -> position in the current call]
    op,           \* [Threads -> the operation being / last called]
    loc,          \* [Threads -> the call's locals]
    ret,          \* [Threads -> the last call's return value]
    out,          \* the consumer's destination cells: <<>> untouched, <<v>> assigned
    src,          \* the producer's argument: value / values[0..count-1]
    fx,           \* [Threads -> effects of the current / last call on shared state]
    pre,          \* [Threads -> the published cursors when the call began]
    nextVal,      \* the next value of the producer's source
    accepted,     \* values whose write was reported successful, in order
    delivered,    \* values handed to the consumer by successful reads, in order
    cleared,      \* values destroyed by Clear
    streak,       \* successful element writes since the last readIndex_ store
    sinceClear,   \* what has returned since the last Clear: "cleared", then "written", then "read"
    faults        \* lifecycle violations that have happened

vars == <<Capacity, buffer_, readIndex_, writeIndex_, alive, pc, op, loc, ret,
          out, src, fx, pre, nextVal, accepted, delivered, cleared, streak,
          sinceClear, faults>>

shared == <<buffer_, readIndex_, writeIndex_>>
history == <<accepted, delivered, cleared, streak>>

Slots == 0 .. Capacity - 1
LiveSlots == {i \in Slots : buffer_[i].st # "dead"}

NoLocals == [cur |-> 0, nxt |-> 0, seen |-> 0, n |-> 0, count |-> 0, mv |-> FALSE]
NoRet == [b |-> FALSE, n |-> 0]
Effect(k, i, v) == [k |-> k, i |-> i, v |-> v]
Snapshot == [r |-> readIndex_, w |-> writeIndex_]

\* return (index + 1) & (Capacity - 1);
IncrementIndex(index) == BitAnd(index + 1, Capacity - 1)

\* RingBuffer() noexcept : readIndex_(0), writeIndex_(0) {}
Init ==
    /\ Capacity \in Capacities
    /\ buffer_ = [i \in 0 .. Capacity - 1 |-> DeadSlot]
    /\ readIndex_ = 0
    /\ writeIndex_ = 0
    /\ alive = TRUE
    /\ pc = [t \in Threads |-> "idle"]
    /\ op = [t \in Threads |-> "none"]
    /\ loc = [t \in Threads |-> NoLocals]
    /\ ret = [t \in Threads |-> NoRet]
    /\ out = <<>>
    /\ src = <<>>
    /\ fx = [t \in Threads |-> <<>>]
    /\ pre = [t \in Threads |-> Snapshot]
    /\ nextVal = 0
    /\ accepted = <<>>
    /\ delivered = <<>>
    /\ cleared = {}
    /\ streak = 0
    /\ sinceClear = "none"
    /\ faults = {}

\* A thread is between calls.
AtRest(t) == pc[t] \in {"idle", "done"}

\* Clear requires exclusive access: a call that begins while the other
\* thread is inside Clear, or a Clear that begins while the other thread is
\* inside any call, breaks that requirement.
Overlaps(t, name) ==
    /\ ~AtRest(Other(t))
    /\ name = "Clear" \/ op[Other(t)] = "Clear"

Entered(t, name) ==
    faults' = IF Overlaps(t, name)
              THEN faults \cup {"Clear without exclusive access"} ELSE faults

\* A call begins: fresh locals, nothing done yet.
Begin(t, name, first, count, mv) ==
    /\ alive
    /\ AtRest(t)
    /\ Entered(t, name)
    /\ pc' = [pc EXCEPT ![t] = first]
    /\ op' = [op EXCEPT ![t] = name]
    /\ loc' = [loc EXCEPT ![t] = [NoLocals EXCEPT !.count = count, !.mv = mv]]
    /\ ret' = [ret EXCEPT ![t] = NoRet]
    /\ fx' = [fx EXCEPT ![t] = <<>>]
    /\ pre' = [pre EXCEPT ![t] = Snapshot]

\* A call of a const member function begins: it has no effects to compare
\* with the cursors at entry, so no snapshot of them is kept.
BeginConst(t, name, first) ==
    /\ alive
    /\ AtRest(t)
    /\ Entered(t, name)
    /\ pc' = [pc EXCEPT ![t] = first]
    /\ op' = [op EXCEPT ![t] = name]
    /\ loc' = [loc EXCEPT ![t] = NoLocals]
    /\ ret' = [ret EXCEPT ![t] = NoRet]
    /\ fx' = [fx EXCEPT ![t] = <<>>]
    /\ pre' = [pre EXCEPT ![t] = [r |-> 0, w |-> 0]]

\* A call of operation name returns.
Returned(name) ==
    sinceClear' = IF name = "Clear" THEN "cleared"
                  ELSE IF sinceClear = "cleared" /\ name = "Write" THEN "written"
                  ELSE IF sinceClear = "written" /\ name = "Read" THEN "read"
                  ELSE "none"

\* placement new at slot i: a T is constructed there, whatever the storage held.
Construct(i, v) ==
    /\ buffer_' = [buffer_ EXCEPT ![i] = LiveSlot(v)]
    /\ faults' = IF buffer_[i].st # "dead" THEN faults \cup {"construct over live"} ELSE faults

\* ->~T() at slot i.
Destroy(i) ==
    /\ buffer_' = [buffer_ EXCEPT ![i] = DeadSlot]
    /\ faults' = IF buffer_[i].st = "dead" THEN faults \cup {"destroy of dead"} ELSE faults

\* ------------------------------------------------------------------ Write
\* bool Write(const T& value) / bool Write(T&& value): the producer passes
\* the next value of its source, by copy or by move.
Write_Call ==
    /\ nextVal < MaxItems
    /\ \E mv \in BOOLEAN : Begin("producer", "Write", "W_loadWrite", 1, mv)
    /\ src' = <<nextVal>>
    /\ UNCHANGED <<Capacity, sinceClear, shared, alive, out, nextVal, history>>

\* const auto currentWrite = writeIndex_.load(relaxed);
\* const auto nextWrite = IncrementIndex(currentWrite);
Write_LoadWrite ==
    /\ pc["producer"] = "W_loadWrite"
    /\ loc' = [loc EXCEPT !["producer"].cur = writeIndex_,
                          !["producer"].nxt = IncrementIndex(writeIndex_)]
    /\ pc' = [pc EXCEPT !["producer"] = "W_loadRead"]
    /\ UNCHANGED <<Capacity, sinceClear, shared, alive, op, ret, out, src, fx, pre, nextVal,
                   history, faults>>

\* Slip: the full check compares currentWrite, not nextWrite, with readIndex_.
Write_LoadReadWrongCursor ==
    /\ pc["producer"] = "W_loadRead"
    /\ loc' = [loc EXCEPT !["producer"].seen = readIndex_]
    /\ IF loc["producer"].cur = readIndex_
       THEN /\ pc' = [pc EXCEPT !["producer"] = "done"]
            /\ ret' = [ret EXCEPT !["producer"].b = FALSE]
            /\ Returned("Write")
       ELSE /\ pc' = [pc EXCEPT !["producer"] = "W_construct"]
            /\ ret' = ret
            /\ sinceClear' = sinceClear
    /\ UNCHANGED <<Capacity, shared, alive, op, out, src, fx, pre, nextVal,
                   history, faults>>

\* if (nextWrite == readIndex_.load(acquire)) return false;
Write_LoadRead ==
    /\ pc["producer"] = "W_loadRead"
    /\ loc' = [loc EXCEPT !["producer"].seen = readIndex_]
    /\ IF loc["producer"].nxt = readIndex_
       THEN /\ pc' = [pc EXCEPT !["producer"] = "done"]
            /\ ret' = [ret EXCEPT !["producer"].b = FALSE]
            /\ Returned("Write")
       ELSE /\ pc' = [pc EXCEPT !["producer"] = "W_construct"]
            /\ ret' = ret
            /\ sinceClear' = sinceClear
    /\ UNCHANGED <<Capacity, shared, alive, op, out, src, fx, pre, nextVal,
                   history, faults>>

\* Slip: the element is constructed at slot nextWrite, not currentWrite.
Write_ConstructAtNext ==
    /\ pc["producer"] = "W_construct"
    /\ Construct(loc["producer"].nxt, src[1])
    /\ src' = IF loc["producer"].mv THEN <<>> ELSE src
    /\ fx' = [fx EXCEPT !["producer"] =
                 Append(@, Effect("construct", loc["producer"].nxt, src[1]))]
    /\ pc' = [pc EXCEPT !["producer"] = "W_store"]
    /\ UNCHANGED <<Capacity, sinceClear, readIndex_, writeIndex_, alive, op, loc, ret,
                   out, pre, nextVal, history>>

\* new (&buffer_[currentWrite]) T(value);  or  T(std::move(value));
Write_Construct ==
    /\ pc["producer"] = "W_construct"
    /\ Construct(loc["producer"].cur, src[1])
    /\ src' = IF loc["producer"].mv THEN <<>> ELSE src
    /\ fx' = [fx EXCEPT !["producer"] =
                 Append(@, Effect("construct", loc["producer"].cur, src[1]))]
    /\ pc' = [pc EXCEPT !["producer"] = "W_store"]
    /\ UNCHANGED <<Capacity, sinceClear, readIndex_, writeIndex_, alive, op, loc, ret, out, pre,
                   nextVal, history>>

\* writeIndex_.store(nextWrite, release); return true;
Write_Store ==
    /\ pc["producer"] = "W_store"
    /\ writeIndex_' = loc["producer"].nxt
    /\ fx' = [fx EXCEPT !["producer"] =
                 Append(@, Effect("store writeIndex_", loc["producer"].nxt, 0))]
    /\ ret' = [ret EXCEPT !["producer"].b = TRUE]
    /\ pc' = [pc EXCEPT !["producer"] = "done"]
    /\ accepted' = Append(accepted, nextVal)
    /\ nextVal' = nextVal + 1
    /\ streak' = streak + 1
    /\ Returned("Write")
    /\ UNCHANGED <<Capacity, buffer_, readIndex_, alive, op, loc, out, src, pre,
                   delivered, cleared, faults>>

\* Slip: writeIndex_ is published before the element is constructed.
Write_PublishEarly ==
    /\ pc["producer"] = "W_construct"
    /\ writeIndex_' = loc["producer"].nxt
    /\ fx' = [fx EXCEPT !["producer"] =
                 Append(@, Effect("store writeIndex_", loc["producer"].nxt, 0))]
    /\ pc' = [pc EXCEPT !["producer"] = "W_store"]
    /\ UNCHANGED <<Capacity, sinceClear, buffer_, readIndex_, alive, op, loc, ret, out,
                   src, pre, nextVal, history, faults>>

Write_ConstructLate ==
    /\ pc["producer"] = "W_store"
    /\ Construct(loc["producer"].cur, src[1])
    /\ src' = IF loc["producer"].mv THEN <<>> ELSE src
    /\ fx' = [fx EXCEPT !["producer"] =
                 Append(@, Effect("construct", loc["producer"].cur, src[1]))]
    /\ ret' = [ret EXCEPT !["producer"].b = TRUE]
    /\ pc' = [pc EXCEPT !["producer"] = "done"]
    /\ accepted' = Append(accepted, nextVal)
    /\ nextVal' = nextVal + 1
    /\ streak' = streak + 1
    /\ Returned("Write")
    /\ UNCHANGED <<Capacity, readIndex_, writeIndex_, alive, op, loc, out, pre,
                   delivered, cleared>>

WritePublishFirst ==
    \/ Write_Call
    \/ Write_LoadWrite
    \/ Write_LoadRead
    \/ Write_PublishEarly
    \/ Write_ConstructLate

Write ==
    \/ Write_Call
    \/ Write_LoadWrite
    \/ Write_LoadRead
    \/ Write_Construct
    \/ Write_Store

\* ------------------------------------------------------------------- Read
\* bool Read(T& value): the consumer passes a fresh destination.
Read_Call ==
    /\ Begin("consumer", "Read", "R_loadRead", 1, FALSE)
    /\ out' = << <<>> >>
    /\ UNCHANGED <<Capacity, sinceClear, shared, alive, src, nextVal, history>>

\* const auto currentRead = readIndex_.load(relaxed);
Read_LoadRead ==
    /\ pc["consumer"] = "R_loadRead"
    /\ loc' = [loc EXCEPT !["consumer"].cur = readIndex_]
    /\ pc' = [pc EXCEPT !["consumer"] = "R_loadWrite"]
    /\ UNCHANGED <<Capacity, sinceClear, shared, alive, op, ret, out, src, fx, pre, nextVal,
                   history, faults>>

\* Slip: the empty check compares nextRead, not currentRead, with writeIndex_.
Read_LoadWriteOffByOne ==
    /\ pc["consumer"] = "R_loadWrite"
    /\ loc' = [loc EXCEPT !["consumer"].seen = writeIndex_,
                          !["consumer"].nxt = IncrementIndex(loc["consumer"].cur)]
    /\ IF IncrementIndex(loc["consumer"].cur) = writeIndex_
       THEN /\ pc' = [pc EXCEPT !["consumer"] = "done"]
            /\ ret' = [ret EXCEPT !["consumer"].b = FALSE]
            /\ Returned("Read")
       ELSE /\ pc' = [pc EXCEPT !["consumer"] = "R_move"]
            /\ ret' = ret
            /\ sinceClear' = sinceClear
    /\ UNCHANGED <<Capacity, shared, alive, op, out, src, fx, pre, nextVal,
                   history, faults>>

\* if (currentRead == writeIndex_.load(acquire)) return false;
\* const auto nextRead = IncrementIndex(currentRead);
Read_LoadWrite ==
    /\ pc["consumer"] = "R_loadWrite"
    /\ loc' = [loc EXCEPT !["consumer"].seen = writeIndex_,
                          !["consumer"].nxt = IncrementIndex(loc["consumer"].cur)]
    /\ IF loc["consumer"].cur = writeIndex_
       THEN /\ pc' = [pc EXCEPT !["consumer"] = "done"]
            /\ ret' = [ret EXCEPT !["consumer"].b = FALSE]
            /\ Returned("Read")
       ELSE /\ pc' = [pc EXCEPT !["consumer"] = "R_move"]
            /\ ret' = ret
            /\ sinceClear' = sinceClear
    /\ UNCHANGED <<Capacity, shared, alive, op, out, src, fx, pre, nextVal,
                   history, faults>>

\* value = std::move(*reinterpret_cast<T*>(&buffer_[currentRead]));
Read_Move ==
    /\ pc["consumer"] = "R_move"
    /\ \E v \in SlotRead(buffer_[loc["consumer"].cur]) :
          /\ out' = << <<v>> >>
          /\ fx' = [fx EXCEPT !["consumer"] =
                       Append(@, Effect("move", loc["consumer"].cur, v))]
    /\ buffer_' = [buffer_ EXCEPT ![loc["consumer"].cur] =
                      IF @.st = "dead" THEN @ ELSE MovedSlot]
    /\ faults' = IF buffer_[loc["consumer"].cur].st # "live"
                  THEN faults \cup {"move from non-live"} ELSE faults
    /\ pc' = [pc EXCEPT !["consumer"] = "R_destroy"]
    /\ UNCHANGED <<Capacity, sinceClear, readIndex_, writeIndex_, alive, op, loc, ret, src, pre,
                   nextVal, history>>

\* Slip: the moved-from element is left undestroyed.
Read_SkipDestroy ==
    /\ pc["consumer"] = "R_destroy"
    /\ pc' = [pc EXCEPT !["consumer"] = "R_store"]
    /\ UNCHANGED <<Capacity, sinceClear, shared, alive, op, loc, ret, out, src, fx,
                   pre, nextVal, history, faults>>

\* reinterpret_cast<T*>(&buffer_[currentRead])->~T();
Read_Destroy ==
    /\ pc["consumer"] = "R_destroy"
    /\ Destroy(loc["consumer"].cur)
    /\ fx' = [fx EXCEPT !["consumer"] =
                 Append(@, Effect("destroy", loc["consumer"].cur, 0))]
    /\ pc' = [pc EXCEPT !["consumer"] = "R_store"]
    /\ UNCHANGED <<Capacity, sinceClear, readIndex_, writeIndex_, alive, op, loc, ret, out, src,
                   pre, nextVal, history>>

\* Slip: Read publishes its cursor into writeIndex_.
Read_StoreWrongCursor ==
    /\ pc["consumer"] = "R_store"
    /\ writeIndex_' = loc["consumer"].nxt
    /\ fx' = [fx EXCEPT !["consumer"] =
                 Append(@, Effect("store writeIndex_", loc["consumer"].nxt, 0))]
    /\ ret' = [ret EXCEPT !["consumer"].b = TRUE]
    /\ pc' = [pc EXCEPT !["consumer"] = "done"]
    /\ delivered' = Append(delivered, out[1][1])
    /\ streak' = 0
    /\ Returned("Read")
    /\ UNCHANGED <<Capacity, buffer_, readIndex_, alive, op, loc, out, src, pre,
                   nextVal, accepted, cleared, faults>>

\* readIndex_.store(nextRead, release); return true;
Read_Store ==
    /\ pc["consumer"] = "R_store"
    /\ readIndex_' = loc["consumer"].nxt
    /\ fx' = [fx EXCEPT !["consumer"] =
                 Append(@, Effect("store readIndex_", loc["consumer"].nxt, 0))]
    /\ ret' = [ret EXCEPT !["consumer"].b = TRUE]
    /\ pc' = [pc EXCEPT !["consumer"] = "done"]
    /\ delivered' = Append(delivered, out[1][1])
    /\ streak' = 0
    /\ Returned("Read")
    /\ UNCHANGED <<Capacity, buffer_, writeIndex_, alive, op, loc, out, src, pre,
                   nextVal, accepted, cleared, faults>>

Read ==
    \/ Read_Call
    \/ Read_LoadRead
    \/ Read_LoadWrite
    \/ Read_Move
    \/ Read_Destroy
    \/ Read_Store

\* ------------------------------------------------------------- WriteBatch
\* size_t WriteBatch(const T* values, size_t count): the producer passes the
\* next count values of its source.
WriteBatch_Call ==
    /\ \E count \in 0 .. MaxBatch :
          /\ nextVal + count <= MaxItems
          /\ Begin("producer", "WriteBatch", "WB_loadWrite", count, FALSE)
          /\ src' = [k \in 1 .. count |-> nextVal + k - 1]
    /\ UNCHANGED <<Capacity, sinceClear, shared, alive, out, nextVal, history>>

\* size_t written = 0; auto currentWrite = writeIndex_.load(relaxed);
WriteBatch_LoadWrite ==
    /\ pc["producer"] = "WB_loadWrite"
    /\ loc' = [loc EXCEPT !["producer"].cur = writeIndex_, !["producer"].n = 0]
    /\ pc' = [pc EXCEPT !["producer"] = "WB_loop"]
    /\ UNCHANGED <<Capacity, sinceClear, shared, alive, op, ret, out, src, fx, pre, nextVal,
                   history, faults>>

\* Slip: the loop condition is the prefetch's, written + 1 < count, so the
\* batch stops one element short.
WriteBatch_LoopOneShort ==
    /\ pc["producer"] = "WB_loop"
    /\ IF loc["producer"].n + 1 < loc["producer"].count
       THEN /\ loc' = [loc EXCEPT !["producer"].nxt = IncrementIndex(loc["producer"].cur),
                                  !["producer"].seen = readIndex_]
            /\ pc' = [pc EXCEPT !["producer"] =
                         IF IncrementIndex(loc["producer"].cur) = readIndex_
                         THEN "WB_store" ELSE "WB_construct"]
       ELSE /\ loc' = loc
            /\ pc' = [pc EXCEPT !["producer"] = "WB_store"]
    /\ UNCHANGED <<Capacity, sinceClear, shared, alive, op, ret, out, src, fx, pre, nextVal,
                   history, faults>>

\* Slip: the batch's full check compares currentWrite, not nextWrite, with
\* readIndex_.
WriteBatch_LoopWrongCursor ==
    /\ pc["producer"] = "WB_loop"
    /\ IF loc["producer"].n < loc["producer"].count
       THEN /\ loc' = [loc EXCEPT !["producer"].nxt = IncrementIndex(loc["producer"].cur),
                                  !["producer"].seen = readIndex_]
            /\ pc' = [pc EXCEPT !["producer"] =
                         IF loc["producer"].cur = readIndex_
                         THEN "WB_store" ELSE "WB_construct"]
       ELSE /\ loc' = loc
            /\ pc' = [pc EXCEPT !["producer"] = "WB_store"]
    /\ UNCHANGED <<Capacity, sinceClear, shared, alive, op, ret, out, src, fx, pre, nextVal,
                   history, faults>>

\* while (written < count) { nextWrite = IncrementIndex(currentWrite);
\*     if (nextWrite == readIndex_.load(acquire)) break;
WriteBatch_Loop ==
    /\ pc["producer"] = "WB_loop"
    /\ IF loc["producer"].n < loc["producer"].count
       THEN /\ loc' = [loc EXCEPT !["producer"].nxt = IncrementIndex(loc["producer"].cur),
                                  !["producer"].seen = readIndex_]
            /\ pc' = [pc EXCEPT !["producer"] =
                         IF IncrementIndex(loc["producer"].cur) = readIndex_
                         THEN "WB_store" ELSE "WB_construct"]
       ELSE /\ loc' = loc
            /\ pc' = [pc EXCEPT !["producer"] = "WB_store"]
    /\ UNCHANGED <<Capacity, sinceClear, shared, alive, op, ret, out, src, fx, pre, nextVal,
                   history, faults>>

\* Slip: the batch publishes writeIndex_ after every element.
WriteBatch_ConstructAndPublish ==
    /\ pc["producer"] = "WB_construct"
    /\ Construct(loc["producer"].cur, src[loc["producer"].n + 1])
    /\ writeIndex_' = loc["producer"].nxt
    /\ fx' = [fx EXCEPT !["producer"] =
                 Append(Append(@, Effect("construct", loc["producer"].cur,
                                         src[loc["producer"].n + 1])),
                        Effect("store writeIndex_", loc["producer"].nxt, 0))]
    /\ loc' = [loc EXCEPT !["producer"].cur = loc["producer"].nxt,
                          !["producer"].n = @ + 1]
    /\ pc' = [pc EXCEPT !["producer"] = "WB_loop"]
    /\ UNCHANGED <<Capacity, sinceClear, readIndex_, alive, op, ret, out,
                   src, pre, nextVal, history>>

\* Slip: the loop forgets ++written, so only a full buffer ends it.
WriteBatch_ConstructNoCount ==
    /\ pc["producer"] = "WB_construct"
    /\ Construct(loc["producer"].cur, src[loc["producer"].n + 1])
    /\ fx' = [fx EXCEPT !["producer"] =
                 Append(@, Effect("construct", loc["producer"].cur,
                                  src[loc["producer"].n + 1]))]
    /\ loc' = [loc EXCEPT !["producer"].cur = loc["producer"].nxt]
    /\ pc' = [pc EXCEPT !["producer"] = "WB_loop"]
    /\ UNCHANGED <<Capacity, sinceClear, readIndex_, writeIndex_, alive, op, ret, out,
                   src, pre, nextVal, history>>

\* Slip: every element is constructed from values[0], not values[written].
WriteBatch_ConstructFirstValue ==
    /\ pc["producer"] = "WB_construct"
    /\ Construct(loc["producer"].cur, src[1])
    /\ fx' = [fx EXCEPT !["producer"] =
                 Append(@, Effect("construct", loc["producer"].cur, src[1]))]
    /\ loc' = [loc EXCEPT !["producer"].cur = loc["producer"].nxt,
                          !["producer"].n = @ + 1]
    /\ pc' = [pc EXCEPT !["producer"] = "WB_loop"]
    /\ UNCHANGED <<Capacity, sinceClear, readIndex_, writeIndex_, alive, op, ret, out,
                   src, pre, nextVal, history>>

\* new (&buffer_[currentWrite]) T(values[written]);
\* currentWrite = nextWrite; ++written; }
WriteBatch_Construct ==
    /\ pc["producer"] = "WB_construct"
    /\ Construct(loc["producer"].cur, src[loc["producer"].n + 1])
    /\ fx' = [fx EXCEPT !["producer"] =
                 Append(@, Effect("construct", loc["producer"].cur,
                                  src[loc["producer"].n + 1]))]
    /\ loc' = [loc EXCEPT !["producer"].cur = loc["producer"].nxt,
                          !["producer"].n = @ + 1]
    /\ pc' = [pc EXCEPT !["producer"] = "WB_loop"]
    /\ UNCHANGED <<Capacity, sinceClear, readIndex_, writeIndex_, alive, op, ret, out, src, pre,
                   nextVal, history>>

\* Slip: the batch publishes writeIndex_ only when all count values went in.
WriteBatch_StoreOnlyIfComplete ==
    /\ pc["producer"] = "WB_store"
    /\ IF loc["producer"].n > 0 /\ loc["producer"].n = loc["producer"].count
       THEN /\ writeIndex_' = loc["producer"].cur
            /\ fx' = [fx EXCEPT !["producer"] =
                         Append(@, Effect("store writeIndex_", loc["producer"].cur, 0))]
       ELSE UNCHANGED <<writeIndex_, fx>>
    /\ ret' = [ret EXCEPT !["producer"].n = loc["producer"].n]
    /\ pc' = [pc EXCEPT !["producer"] = "done"]
    /\ accepted' = accepted \o SubSeq(src, 1, loc["producer"].n)
    /\ nextVal' = nextVal + loc["producer"].n
    /\ streak' = streak + loc["producer"].n
    /\ Returned("WriteBatch")
    /\ UNCHANGED <<Capacity, buffer_, readIndex_, alive, op, loc, out, src, pre,
                   delivered, cleared, faults>>

\* if (written > 0) writeIndex_.store(currentWrite, release); return written;
WriteBatch_Store ==
    /\ pc["producer"] = "WB_store"
    /\ IF loc["producer"].n > 0
       THEN /\ writeIndex_' = loc["producer"].cur
            /\ fx' = [fx EXCEPT !["producer"] =
                         Append(@, Effect("store writeIndex_", loc["producer"].cur, 0))]
       ELSE UNCHANGED <<writeIndex_, fx>>
    /\ ret' = [ret EXCEPT !["producer"].n = loc["producer"].n]
    /\ pc' = [pc EXCEPT !["producer"] = "done"]
    /\ accepted' = accepted \o SubSeq(src, 1, loc["producer"].n)
    /\ nextVal' = nextVal + loc["producer"].n
    /\ streak' = streak + loc["producer"].n
    /\ Returned("WriteBatch")
    /\ UNCHANGED <<Capacity, buffer_, readIndex_, alive, op, loc, out, src, pre,
                   delivered, cleared, faults>>

WriteBatch ==
    \/ WriteBatch_Call
    \/ WriteBatch_LoadWrite
    \/ WriteBatch_Loop
    \/ WriteBatch_Construct
    \/ WriteBatch_Store

\* -------------------------------------------------------------- ReadBatch
\* size_t ReadBatch(T* values, size_t count): the consumer passes count
\* fresh destination cells.
ReadBatch_Call ==
    /\ \E count \in 0 .. MaxBatch :
          /\ Begin("consumer", "ReadBatch", "RB_loadRead", count, FALSE)
          /\ out' = [k \in 1 .. count |-> <<>>]
    /\ UNCHANGED <<Capacity, sinceClear, shared, alive, src, nextVal, history>>

\* size_t read = 0; auto currentRead = readIndex_.load(relaxed);
ReadBatch_LoadRead ==
    /\ pc["consumer"] = "RB_loadRead"
    /\ loc' = [loc EXCEPT !["consumer"].cur = readIndex_, !["consumer"].n = 0]
    /\ pc' = [pc EXCEPT !["consumer"] = "RB_loop"]
    /\ UNCHANGED <<Capacity, sinceClear, shared, alive, op, ret, out, src, fx, pre, nextVal,
                   history, faults>>

\* while (read < count) {
\*     if (currentRead == writeIndex_.load(acquire)) break;
ReadBatch_Loop ==
    /\ pc["consumer"] = "RB_loop"
    /\ IF loc["consumer"].n < loc["consumer"].count
       THEN /\ loc' = [loc EXCEPT !["consumer"].seen = writeIndex_]
            /\ pc' = [pc EXCEPT !["consumer"] =
                         IF loc["consumer"].cur = writeIndex_
                         THEN "RB_store" ELSE "RB_move"]
       ELSE /\ loc' = loc
            /\ pc' = [pc EXCEPT !["consumer"] = "RB_store"]
    /\ UNCHANGED <<Capacity, sinceClear, shared, alive, op, ret, out, src, fx, pre, nextVal,
                   history, faults>>

\* values[read] = std::move(*reinterpret_cast<T*>(&buffer_[currentRead]));
ReadBatch_Move ==
    /\ pc["consumer"] = "RB_move"
    /\ \E v \in SlotRead(buffer_[loc["consumer"].cur]) :
          /\ out' = [out EXCEPT ![loc["consumer"].n + 1] = <<v>>]
          /\ fx' = [fx EXCEPT !["consumer"] =
                       Append(@, Effect("move", loc["consumer"].cur, v))]
    /\ buffer_' = [buffer_ EXCEPT ![loc["consumer"].cur] =
                      IF @.st = "dead" THEN @ ELSE MovedSlot]
    /\ faults' = IF buffer_[loc["consumer"].cur].st # "live"
                  THEN faults \cup {"move from non-live"} ELSE faults
    /\ pc' = [pc EXCEPT !["consumer"] = "RB_destroy"]
    /\ UNCHANGED <<Capacity, sinceClear, readIndex_, writeIndex_, alive, op, loc, ret, src, pre,
                   nextVal, history>>

\* Slip: the batch forgets to advance currentRead after an element.
ReadBatch_DestroyNoAdvance ==
    /\ pc["consumer"] = "RB_destroy"
    /\ Destroy(loc["consumer"].cur)
    /\ fx' = [fx EXCEPT !["consumer"] =
                 Append(@, Effect("destroy", loc["consumer"].cur, 0))]
    /\ loc' = [loc EXCEPT !["consumer"].n = @ + 1]
    /\ pc' = [pc EXCEPT !["consumer"] = "RB_loop"]
    /\ UNCHANGED <<Capacity, sinceClear, readIndex_, writeIndex_, alive, op, ret, out,
                   src, pre, nextVal, history>>

\* reinterpret_cast<T*>(&buffer_[currentRead])->~T();
\* currentRead = IncrementIndex(currentRead); ++read; }
ReadBatch_Destroy ==
    /\ pc["consumer"] = "RB_destroy"
    /\ Destroy(loc["consumer"].cur)
    /\ fx' = [fx EXCEPT !["consumer"] =
                 Append(@, Effect("destroy", loc["consumer"].cur, 0))]
    /\ loc' = [loc EXCEPT !["consumer"].cur = IncrementIndex(loc["consumer"].cur),
                          !["consumer"].n = @ + 1]
    /\ pc' = [pc EXCEPT !["consumer"] = "RB_loop"]
    /\ UNCHANGED <<Capacity, sinceClear, readIndex_, writeIndex_, alive, op, ret, out, src, pre,
                   nextVal, history>>

\* Slip: readIndex_ is advanced by one element, as in Read, whatever was read.
ReadBatch_StoreOneStep ==
    /\ pc["consumer"] = "RB_store"
    /\ IF loc["consumer"].n > 0
       THEN /\ readIndex_' = IncrementIndex(readIndex_)
            /\ fx' = [fx EXCEPT !["consumer"] =
                         Append(@, Effect("store readIndex_", IncrementIndex(readIndex_), 0))]
            /\ streak' = 0
       ELSE UNCHANGED <<readIndex_, fx, streak>>
    /\ ret' = [ret EXCEPT !["consumer"].n = loc["consumer"].n]
    /\ pc' = [pc EXCEPT !["consumer"] = "done"]
    /\ delivered' = delivered \o [k \in 1 .. loc["consumer"].n |-> out[k][1]]
    /\ Returned("ReadBatch")
    /\ UNCHANGED <<Capacity, buffer_, writeIndex_, alive, op, loc, out, src, pre,
                   nextVal, accepted, cleared, faults>>

\* if (read > 0) readIndex_.store(currentRead, release); return read;
ReadBatch_Store ==
    /\ pc["consumer"] = "RB_store"
    /\ IF loc["consumer"].n > 0
       THEN /\ readIndex_' = loc["consumer"].cur
            /\ fx' = [fx EXCEPT !["consumer"] =
                         Append(@, Effect("store readIndex_", loc["consumer"].cur, 0))]
            /\ streak' = 0
       ELSE UNCHANGED <<readIndex_, fx, streak>>
    /\ ret' = [ret EXCEPT !["consumer"].n = loc["consumer"].n]
    /\ pc' = [pc EXCEPT !["consumer"] = "done"]
    /\ delivered' = delivered \o [k \in 1 .. loc["consumer"].n |-> out[k][1]]
    /\ Returned("ReadBatch")
    /\ UNCHANGED <<Capacity, buffer_, writeIndex_, alive, op, loc, out, src, pre,
                   nextVal, accepted, cleared, faults>>

ReadBatch ==
    \/ ReadBatch_Call
    \/ ReadBatch_LoadRead
    \/ ReadBatch_Loop
    \/ ReadBatch_Move
    \/ ReadBatch_Destroy
    \/ ReadBatch_Store

\* ------------------------------------------------------------------ Clear
\* void Clear(): called by either thread.
Clear_Call(t) ==
    /\ Begin(t, "Clear", "C_loadRead", 0, FALSE)
    /\ UNCHANGED <<Capacity, sinceClear, shared, alive, out, src, nextVal, history>>

\* auto current = readIndex_.load(relaxed);
Clear_LoadRead(t) ==
    /\ pc[t] = "C_loadRead"
    /\ loc' = [loc EXCEPT ![t].cur = readIndex_]
    /\ pc' = [pc EXCEPT ![t] = "C_loadWrite"]
    /\ UNCHANGED <<Capacity, sinceClear, shared, alive, op, ret, out, src, fx, pre, nextVal,
                   history, faults>>

\* const auto end = writeIndex_.load(relaxed);
Clear_LoadWrite(t) ==
    /\ pc[t] = "C_loadWrite"
    /\ loc' = [loc EXCEPT ![t].seen = writeIndex_]
    /\ pc' = [pc EXCEPT ![t] = "C_loop"]
    /\ UNCHANGED <<Capacity, sinceClear, shared, alive, op, ret, out, src, fx, pre, nextVal,
                   history, faults>>

\* Slip: Clear walks the range without running the destructors.
Clear_LoopNoDestroy(t) ==
    /\ pc[t] = "C_loop"
    /\ IF loc[t].cur # loc[t].seen
       THEN /\ loc' = [loc EXCEPT ![t].cur = IncrementIndex(loc[t].cur),
                                  ![t].n = @ + 1]
            /\ pc' = pc
       ELSE /\ pc' = [pc EXCEPT ![t] = "C_storeRead"]
            /\ loc' = loc
    /\ UNCHANGED <<Capacity, sinceClear, shared, alive, op, ret, out, src, fx, pre,
                   nextVal, history, faults>>

\* while (current != end) {
\*     reinterpret_cast<T*>(&buffer_[current])->~T();
\*     current = IncrementIndex(current); }
Clear_Loop(t) ==
    /\ pc[t] = "C_loop"
    /\ IF loc[t].cur # loc[t].seen
       THEN /\ Destroy(loc[t].cur)
            /\ cleared' = IF buffer_[loc[t].cur].st = "live"
                           THEN cleared \cup {buffer_[loc[t].cur].val} ELSE cleared
            /\ fx' = [fx EXCEPT ![t] = Append(@, Effect("destroy", loc[t].cur, 0))]
            /\ loc' = [loc EXCEPT ![t].cur = IncrementIndex(loc[t].cur),
                                  ![t].n = @ + 1]
            /\ pc' = pc
       ELSE /\ pc' = [pc EXCEPT ![t] = "C_storeRead"]
            /\ UNCHANGED <<buffer_, faults, cleared, fx, loc>>
    /\ UNCHANGED <<Capacity, sinceClear, readIndex_, writeIndex_, alive, op, ret, out, src, pre,
                   nextVal, accepted, delivered, streak>>

\* readIndex_.store(0, relaxed);
Clear_StoreRead(t) ==
    /\ pc[t] = "C_storeRead"
    /\ readIndex_' = 0
    /\ fx' = [fx EXCEPT ![t] = Append(@, Effect("store readIndex_", 0, 0))]
    /\ streak' = 0
    /\ pc' = [pc EXCEPT ![t] = "C_storeWrite"]
    /\ UNCHANGED <<Capacity, sinceClear, buffer_, writeIndex_, alive, op, loc, ret, out, src, pre,
                   nextVal, accepted, delivered, cleared, faults>>

\* writeIndex_.store(0, relaxed);
Clear_StoreWrite(t) ==
    /\ pc[t] = "C_storeWrite"
    /\ writeIndex_' = 0
    /\ fx' = [fx EXCEPT ![t] = Append(@, Effect("store writeIndex_", 0, 0))]
    /\ pc' = [pc EXCEPT ![t] = "done"]
    /\ Returned("Clear")
    /\ UNCHANGED <<Capacity, buffer_, readIndex_, alive, op, loc, ret, out, src, pre,
                   nextVal, history, faults>>

Clear(t) ==
    \/ Clear_Call(t)
    \/ Clear_LoadRead(t)
    \/ Clear_LoadWrite(t)
    \/ Clear_Loop(t)
    \/ Clear_StoreRead(t)
    \/ Clear_StoreWrite(t)

\* ------------------------------------------------------------ destruction
\* The class declares no destructor: the implicit one ends the lifetime of
\* the members buffer_ (raw aligned storage), readIndex_ and writeIndex_ and
\* runs no element's destructor.  It runs when no call is in progress.
ImplicitDestructor ==
    /\ alive
    /\ \A t \in Threads : AtRest(t)
    /\ alive' = FALSE
    /\ UNCHANGED <<Capacity, sinceClear, shared, pc, op, loc, ret, out, src, fx, pre, nextVal,
                   history, faults>>

\* --------------------------------------------------------- specifications
Producer == Write \/ WriteBatch
Consumer == Read \/ ReadBatch

\* One producer thread and one consumer thread, interleaved step by step.
Next ==
    \/ Producer
    \/ Consumer
    \/ ImplicitDestructor

Spec == Init /\ [][Next]_vars

\* Single-threaded use: a call runs to its return before the next begins, so
\* Clear has the exclusive access it requires.
SeqNext ==
    \/ AtRest("consumer") /\ (Producer \/ Clear("producer"))
    \/ AtRest("producer") /\ (Consumer \/ Clear("consumer"))
    \/ ImplicitDestructor

SeqSpec == Init /\ [][SeqNext]_vars

\* The producer thread calling Write and the consumer thread calling Read,
\* with nothing keeping Clear apart from the other thread's calls: either
\* thread may call Clear at any time it is between calls. Once a Clear has
\* overlapped another call the behaviour of the program is undefined: the
\* two overlapping calls are followed to their return and no call begins
\* after that.
MayStep(t) == ~AtRest(t) \/ faults = {}

RaceNext ==
    \/ MayStep("producer") /\ Write
    \/ MayStep("consumer") /\ Read
    \/ \E t \in Threads : MayStep(t) /\ Clear(t)

RaceSpec == Init /\ [][RaceNext]_vars

\* multiThreadExample: the producer thread retries Write(i) until it is
\* accepted, for each value of its source in turn; the consumer thread
\* retries Read until it has received as many values. Each thread keeps
\* being scheduled.
RetryWrite == Write

RetryRead == Len(delivered) < MaxItems /\ Read

LiveNext ==
    \/ RetryWrite
    \/ RetryRead

LiveSpec ==
    Init /\ [][LiveNext]_vars /\ WF_vars(RetryWrite) /\ WF_vars(RetryRead)

\* ---------------------------------------------------------- introspection
\* Slip: the wrapped branch counts from the usable capacity, Capacity-1.
SizeOfUsable(read, write) ==
    IF write >= read THEN write - read ELSE (Capacity - 1) - (read - write)

\* size_t Size() const: write >= read ? write - read : Capacity - (read - write)
SizeOf(read, write) ==
    IF write >= read THEN write - read ELSE Capacity - (read - write)

\* Size() with nothing else running between its two loads.
Size == SizeOf(readIndex_, writeIndex_)

\* bool IsEmpty() const
IsEmpty == readIndex_ = writeIndex_

\* bool IsFull() const
IsFull == IncrementIndex(writeIndex_) = readIndex_

\* constexpr size_t GetCapacity() const
GetCapacity == Capacity

\* The const member functions as calls of thread t, one step per atomic
\* load; their locals end with the call.
\* Size(): const auto read = readIndex_.load(relaxed);
Size_Call(t) ==
    /\ BeginConst(t, "Size", "S_loadRead")
    /\ UNCHANGED <<Capacity, sinceClear, shared, alive, out, src, nextVal, history>>

Size_LoadRead(t) ==
    /\ pc[t] = "S_loadRead"
    /\ loc' = [loc EXCEPT ![t].cur = readIndex_]
    /\ pc' = [pc EXCEPT ![t] = "S_loadWrite"]
    /\ ret' = ret
    /\ UNCHANGED <<Capacity, sinceClear, shared, alive, op, out, src, fx, pre, nextVal,
                   history, faults>>

\* Slip: the return expression takes its two operands the wrong way round.
Size_LoadWriteSwapped(t) ==
    /\ pc[t] = "S_loadWrite"
    /\ loc' = [loc EXCEPT ![t] = NoLocals]
    /\ ret' = [ret EXCEPT ![t].n = SizeOf(writeIndex_, loc[t].cur)]
    /\ pc' = [pc EXCEPT ![t] = "done"]
    /\ UNCHANGED <<Capacity, sinceClear, shared, alive, op, out, src, fx, pre, nextVal,
                   history, faults>>

\* const auto write = writeIndex_.load(relaxed);
\* return write >= read ? write - read : Capacity - (read - write);
Size_LoadWrite(t) ==
    /\ pc[t] = "S_loadWrite"
    /\ loc' = [loc EXCEPT ![t] = NoLocals]
    /\ ret' = [ret EXCEPT ![t].n = SizeOf(loc[t].cur, writeIndex_)]
    /\ pc' = [pc EXCEPT ![t] = "done"]
    /\ UNCHANGED <<Capacity, sinceClear, shared, alive, op, out, src, fx, pre, nextVal,
                   history, faults>>

CallSize(t) ==
    \/ Size_Call(t)
    \/ Size_LoadRead(t)
    \/ Size_LoadWrite(t)

\* IsEmpty(): return readIndex_.load(relaxed) == writeIndex_.load(relaxed);
\* the two operands of == are evaluated in either order.
IsEmpty_Call(t) ==
    /\ BeginConst(t, "IsEmpty", "E_first")
    /\ UNCHANGED <<Capacity, sinceClear, shared, alive, out, src, nextVal, history>>

IsEmpty_LoadRead(t) ==
    /\ pc[t] \in {"E_first", "E_afterWrite"}
    /\ IF pc[t] = "E_first"
       THEN /\ pc' = [pc EXCEPT ![t] = "E_afterRead"]
            /\ loc' = [loc EXCEPT ![t].cur = readIndex_]
            /\ ret' = ret
       ELSE /\ pc' = [pc EXCEPT ![t] = "done"]
            /\ loc' = [loc EXCEPT ![t] = NoLocals]
            /\ ret' = [ret EXCEPT ![t].b = (readIndex_ = loc[t].seen)]
    /\ UNCHANGED <<Capacity, sinceClear, shared, alive, op, out, src, fx, pre, nextVal,
                   history, faults>>

IsEmpty_LoadWrite(t) ==
    /\ pc[t] \in {"E_first", "E_afterRead"}
    /\ IF pc[t] = "E_first"
       THEN /\ pc' = [pc EXCEPT ![t] = "E_afterWrite"]
            /\ loc' = [loc EXCEPT ![t].seen = writeIndex_]
            /\ ret' = ret
       ELSE /\ pc' = [pc EXCEPT ![t] = "done"]
            /\ loc' = [loc EXCEPT ![t] = NoLocals]
            /\ ret' = [ret EXCEPT ![t].b = (loc[t].cur = writeIndex_)]
    /\ UNCHANGED <<Capacity, sinceClear, shared, alive, op, out, src, fx, pre, nextVal,
                   history, faults>>

CallIsEmpty(t) ==
    \/ IsEmpty_Call(t)
    \/ IsEmpty_LoadRead(t)
    \/ IsEmpty_LoadWrite(t)

\* IsFull(): const auto nextWrite = IncrementIndex(writeIndex_.load(relaxed));
IsFull_Call(t) ==
    /\ BeginConst(t, "IsFull", "F_loadWrite")
    /\ UNCHANGED <<Capacity, sinceClear, shared, alive, out, src, nextVal, history>>

IsFull_LoadWrite(t) ==
    /\ pc[t] = "F_loadWrite"
    /\ loc' = [loc EXCEPT ![t].nxt = IncrementIndex(writeIndex_)]
    /\ pc' = [pc EXCEPT ![t] = "F_loadRead"]
    /\ ret' = ret
    /\ UNCHANGED <<Capacity, sinceClear, shared, alive, op, out, src, fx, pre, nextVal,
                   history, faults>>

\* return nextWrite == readIndex_.load(relaxed);
IsFull_LoadRead(t) ==
    /\ pc[t] = "F_loadRead"
    /\ loc' = [loc EXCEPT ![t] = NoLocals]
    /\ ret' = [ret EXCEPT ![t].b = (loc[t].nxt = readIndex_)]
    /\ pc' = [pc EXCEPT ![t] = "done"]
    /\ UNCHANGED <<Capacity, sinceClear, shared, alive, op, out, src, fx, pre, nextVal,
                   history, faults>>

CallIsFull(t) ==
    \/ IsFull_Call(t)
    \/ IsFull_LoadWrite(t)
    \/ IsFull_LoadRead(t)

\* GetCapacity(): return Capacity;
GetCapacity_Call(t) ==
    /\ BeginConst(t, "GetCapacity", "G_return")
    /\ UNCHANGED <<Capacity, sinceClear, shared, alive, out, src, nextVal, history>>

GetCapacity_Return(t) ==
    /\ pc[t] = "G_return"
    /\ ret' = [ret EXCEPT ![t].n = Capacity]
    /\ pc' = [pc EXCEPT ![t] = "done"]
    /\ UNCHANGED <<Capacity, sinceClear, shared, alive, op, loc, out, src, fx, pre,
                   nextVal, history, faults>>

CallGetCapacity(t) ==
    \/ GetCapacity_Call(t)
    \/ GetCapacity_Return(t)

Introspect(t) ==
    \/ CallSize(t)
    \/ CallIsEmpty(t)
    \/ CallIsFull(t)
    \/ CallGetCapacity(t)

\* The producer and the consumer thread, each also free to call the const
\* member functions between its transfer calls.
ObsNext ==
    \/ Producer
    \/ Consumer
    \/ \E t \in Threads : Introspect(t)

ObsSpec == Init /\ [][ObsNext]_vars

\* ------------------------------------------------- vocabulary of the claims
IsPrefix(s, t) == Len(s) <= Len(t) /\ SubSeq(t, 1, Len(s)) = s

Min(a, b) == IF a <= b THEN a ELSE b

\* No call is in progress on either thread.
Quiescent == \A t \in Threads : AtRest(t)

\* The values reported written that Clear has not discarded, in order.
Kept == SelectSeq(accepted, LAMBDA v : v \notin cleared)

\* The slots from cursor i up to (excluding) cursor end, in cursor order.
RECURSIVE SlotsFrom(_, _)
SlotsFrom(i, end) ==
    IF i = end THEN <<>> ELSE <<buffer_[i]>> \o SlotsFrom((i + 1) % Capacity, end)

\* The elements the buffer holds between the published cursors, oldest first.
Contents ==
    LET sl == SlotsFrom(readIndex_, writeIndex_)
    IN  [k \in 1 .. Len(sl) |-> sl[k].val]

\* The producer's source: 0, 1, ..., MaxItems-1.
Source == [k \in 1 .. MaxItems |-> k - 1]

\* The last call of thread t was operation name and has returned.
Done(t, name) == pc[t] = "done" /\ op[t] = name

\* Every step that changes a slot or a cursor is recorded in the effect log
\* of the thread that takes it, so an empty log means nothing was changed.
EffectsLogged ==
    [][ shared' # shared =>
          \E t \in Threads :
              /\ ~AtRest(t)
              /\ Len(fx'[t]) = Len(fx[t]) + 1
              /\ fx'[Other(t)] = fx[Other(t)]
      ]_vars

\* ================================================================== claims
\* C1: one producer writing 0, 1, ... in order and one consumer reading,
\* interleaved step by step: the values the successful reads have returned
\* are at every moment a prefix of 0, 1, ..., N-1 (nothing dropped,
\* duplicated or reordered).
C1_ConcurrentFifo == IsPrefix(delivered, Source)

\* C1 witness: the consumer is inside a Read while the producer is inside a
\* Write, and all but the last two values have been delivered.
C1_ReadOverlapsWrite ==
    /\ op["producer"] = "Write" /\ pc["producer"] = "W_store"
    /\ op["consumer"] = "Read" /\ pc["consumer"] = "R_destroy"
    /\ Len(delivered) = MaxItems - 2
    /\ Capacity >= 2

\* C2: in single-threaded use the successful reads return exactly the
\* values of the successful writes, in the same order, and between calls the
\* buffer holds precisely the written values not yet read, never more than
\* Capacity-1 of them (values discarded by Clear aside).
C2_SequentialFifo ==
    /\ IsPrefix(delivered, Kept)
    /\ Len(Kept) - Len(delivered) <= Capacity - 1
    /\ Quiescent => Kept = delivered \o Contents

\* C2 witness: capacity 4, values 0..3 written one by one (the fourth only
\* after a read freed a slot, both cursors wrapped to 0), all four read back
\* in order and the next Read refused.
C2_WrappedAndDrained ==
    /\ Capacity = 4
    /\ delivered = <<0, 1, 2, 3>>
    /\ cleared = {}
    /\ readIndex_ = 0 /\ writeIndex_ = 0
    /\ Done("producer", "Write") /\ ret["producer"].b
    /\ Done("consumer", "Read") /\ ~ret["consumer"].b

\* C3: at most Capacity-1 elements are live in every reachable state, and a
\* Capacity-th successful element write never follows Capacity-1 successful
\* ones without a read in between.
C3_CapacityLaw ==
    /\ Cardinality(LiveSlots) <= Capacity - 1
    /\ streak <= Capacity - 1

\* C3 witness: after Capacity-1 successful writes and no read, a Write has
\* returned false.
C3_WriteRefusedWhenFull ==
    /\ Capacity >= 2
    /\ Done("producer", "Write") /\ ~ret["producer"].b
    /\ streak = Capacity - 1
    /\ Cardinality(LiveSlots) = Capacity - 1

\* C4: Write returns false exactly when nextIndex(writeIndex) equals the
\* readIndex value it loaded; a refused Write has stored to no cursor, touched
\* no slot and left its argument intact; a successful one has constructed
\* exactly one element, at the old writeIndex slot, and advanced writeIndex
\* by one modulo Capacity.
C4_WriteContract ==
    Done("producer", "Write") =>
        LET w == pre["producer"].w
            nw == (w + 1) % Capacity
        IN  /\ ~ret["producer"].b <=> nw = loc["producer"].seen
            /\ ~ret["producer"].b =>
                  /\ fx["producer"] = <<>>
                  /\ writeIndex_ = w
                  /\ src = <<nextVal>>
            /\ ret["producer"].b =>
                  /\ fx["producer"] = <<Effect("construct", w, nextVal - 1),
                                        Effect("store writeIndex_", nw, 0)>>
                  /\ writeIndex_ = nw

\* C4 witness: a move-overload Write whose next index wraps to 0 has been
\* refused on a full buffer of capacity 4.
C4_MoveWriteRefused ==
    /\ Capacity = 4
    /\ Done("producer", "Write") /\ ~ret["producer"].b
    /\ loc["producer"].mv
    /\ pre["producer"].w = 3

\* C5: Read returns false exactly when readIndex equals the writeIndex value
\* it loaded; a refused Read has stored to no cursor, touched no slot and
\* left its destination alone; a successful one has delivered the element of
\* the old readIndex slot, destroyed that slot and advanced readIndex by one
\* modulo Capacity.
C5_ReadContract ==
    Done("consumer", "Read") =>
        LET r == pre["consumer"].r
            nr == (r + 1) % Capacity
        IN  /\ ~ret["consumer"].b <=> r = loc["consumer"].seen
            /\ ~ret["consumer"].b =>
                  /\ fx["consumer"] = <<>>
                  /\ readIndex_ = r
                  /\ out = << <<>> >>
            /\ ret["consumer"].b =>
                  /\ \E v \in Values :
                        /\ out = << <<v>> >>
                        /\ fx["consumer"] = <<Effect("move", r, v),
                                              Effect("destroy", r, 0),
                                              Effect("store readIndex_", nr, 0)>>
                  /\ readIndex_ = nr
                  /\ faults = {}

\* C5 witness: a Read has delivered the element of the last slot of a
\* capacity-4 buffer, wrapping readIndex to 0.
C5_ReadWrapped ==
    /\ Capacity = 4
    /\ Done("consumer", "Read") /\ ret["consumer"].b
    /\ pre["consumer"].r = 3
    /\ readIndex_ = 0

\* C6: for every accepted capacity, a freshly constructed buffer is empty
\* and not full; after Capacity-1 consecutive successful writes and no read
\* it is full and not empty; between calls it is never both empty and full.
C6_EmptyFullSymmetry ==
    /\ (\A t \in Threads : pc[t] = "idle") => IsEmpty /\ ~IsFull
    /\ (Quiescent /\ streak = Capacity - 1) => IsFull /\ ~IsEmpty
    /\ Quiescent => ~(IsEmpty /\ IsFull)

\* The same statement restricted to the capacities of at least 2.
C6_SymmetryFromCapacity2 == Capacity >= 2 => C6_EmptyFullSymmetry

\* A full buffer of capacity at least 2, between calls.
C6_FullBetweenCalls == Capacity >= 2 /\ Quiescent /\ streak = Capacity - 1 /\ IsFull

\* The written values not yet read nor discarded, oldest first.
Pending == SubSeq(Kept, Len(delivered) + 1, Len(Kept))

\* C7: with the consumer at rest, WriteBatch(values, N) on a buffer with K
\* free slots returns min(N, K), leaves the buffer holding its former
\* elements followed by values[0..min(N,K)-1], advances writeIndex by the
\* returned count modulo Capacity, and has changed nothing when it returns 0.
C7_WriteBatchPartial ==
    [][ (pc["producer"] = "WB_store" /\ pc'["producer"] = "done" /\ AtRest("consumer")) =>
          LET n == ret'["producer"].n
              held == Len(Contents)
              K == Capacity - 1 - held
          IN  /\ n = Min(loc["producer"].count, K)
              /\ Contents' = Contents \o SubSeq(src, 1, n)
              /\ Cardinality(LiveSlots') = held + n
              /\ pre["producer"].w = writeIndex_
              /\ writeIndex_' = (writeIndex_ + n) % Capacity
              /\ readIndex_' = readIndex_
              /\ n = 0 => fx'["producer"] = <<>> /\ shared' = shared
              /\ faults' = {}
      ]_vars

\* C7 witness: a WriteBatch of 2 values into a buffer with one free slot has
\* returned 1.
C7_ShortWrite ==
    /\ Done("producer", "WriteBatch") /\ AtRest("consumer")
    /\ loc["producer"].count = 2
    /\ ret["producer"].n = 1
    /\ Capacity = 4
    /\ IsFull

\* C8: with the producer at rest, ReadBatch(values, M) on a buffer holding J
\* elements returns min(M, J), stores the min(M, J) oldest elements in FIFO
\* order at the front of the destination, leaves the destination cells from
\* the returned count on untouched, advances readIndex by the returned
\* count modulo Capacity, and has changed nothing when it returns 0.
C8_ReadBatchPartial ==
    [][ (pc["consumer"] = "RB_store" /\ pc'["consumer"] = "done" /\ AtRest("producer")) =>
          LET n == ret'["consumer"].n
              M == loc["consumer"].count
              J == Len(Pending)
          IN  /\ n = Min(M, J)
              /\ Len(out') = M
              /\ \A k \in 1 .. M :
                    out'[k] = IF k <= n THEN <<Pending[k]>> ELSE <<>>
              /\ Contents' = SubSeq(Pending, n + 1, J)
              /\ Cardinality(LiveSlots') = J - n
              /\ pre["consumer"].r = readIndex_
              /\ readIndex_' = (readIndex_ + n) % Capacity
              /\ writeIndex_' = writeIndex_
              /\ n = 0 => fx'["consumer"] = <<>> /\ shared' = shared
              /\ faults' = {}
      ]_vars

\* C8 witness: a ReadBatch of 2 from a buffer holding one element has
\* returned 1 and left the second destination cell untouched.
C8_ShortRead ==
    /\ Done("consumer", "ReadBatch") /\ AtRest("producer")
    /\ loc["consumer"].count = 2
    /\ ret["consumer"].n = 1
    /\ out[2] = <<>>
    /\ Capacity = 4
    /\ IsEmpty

\* C9: after Clear on a buffer between calls every element is destroyed,
\* both cursors are 0, Size() is 0 and IsEmpty() holds; the Write that
\* follows succeeds and the Read after it returns the value just written.
C9_ClearResets ==
    /\ (Quiescent /\ sinceClear = "cleared") =>
          /\ LiveSlots = {}
          /\ Kept = delivered
          /\ readIndex_ = 0 /\ writeIndex_ = 0
          /\ Size = 0
          /\ IsEmpty
          /\ faults = {}
    /\ (sinceClear = "written" /\ Done("producer", "Write")) => ret["producer"].b
    /\ (sinceClear = "read" /\ Done("consumer", "Read")) =>
          /\ ret["consumer"].b
          /\ out = << <<accepted[Len(accepted)]>> >>

\* The same statement restricted to the capacities of at least 2.
C9_ClearResetsFromCapacity2 == Capacity >= 2 => C9_ClearResets

\* Clear has discarded live elements at wrapped cursors, then a Write and a
\* Read have returned.
C9_ClearedWrittenRead ==
    /\ Capacity >= 2
    /\ sinceClear = "read" /\ Done("consumer", "Read")
    /\ cleared # {}

\* C10: once the buffer has been destroyed no constructed element is left
\* undestroyed in its storage.
C10_NoElementOutlivesBuffer == ~alive => LiveSlots = {}

\* The number of its own steps a call in progress on thread t still has to
\* take at most: one per statement left, a loop iteration counted in full.
StepsLeft(t) ==
    LET rem == loc[t].count - loc[t].n
    IN  CASE pc[t] = "W_loadWrite"  -> 4
          [] pc[t] = "W_loadRead"   -> 3
          [] pc[t] = "W_construct"  -> 2
          [] pc[t] = "W_store"      -> 1
          [] pc[t] = "R_loadRead"   -> 5
          [] pc[t] = "R_loadWrite"  -> 4
          [] pc[t] = "R_move"       -> 3
          [] pc[t] = "R_destroy"    -> 2
          [] pc[t] = "R_store"      -> 1
          [] pc[t] = "WB_loadWrite" -> 2 * rem + 3
          [] pc[t] = "WB_loop"      -> 2 * rem + 2
          [] pc[t] = "WB_construct" -> 2 * rem + 1
          [] pc[t] = "WB_store"     -> 1
          [] pc[t] = "RB_loadRead"  -> 3 * rem + 3
          [] pc[t] = "RB_loop"      -> 3 * rem + 2
          [] pc[t] = "RB_move"      -> 3 * rem + 1
          [] pc[t] = "RB_destroy"   -> 3 * rem
          [] pc[t] = "RB_store"     -> 1
          [] OTHER                  -> 0

\* The steps of one thread.
StepOf(t) == IF t = "producer" THEN Producer ELSE Consumer

\* C11: a call of Write, Read, WriteBatch or ReadBatch in progress can always
\* take its next step whatever the other thread is doing (it never waits),
\* every step it takes brings it strictly closer to its return, the steps of
\* the other thread never set it back, a call starts at most 3*count+3 steps
\* from its return, a batch loop runs at most count iterations, and a
\* Write/Read that meets a full/empty buffer returns false in that very step.
C11_BoundedSteps ==
    [][ \A t \in Threads :
          /\ ~AtRest(t) => ENABLED StepOf(t)
          /\ ~AtRest(t) /\ pc'[t] # pc[t] => StepsLeft(t)' < StepsLeft(t)
          /\ pc'[t] = pc[t] => StepsLeft(t)' = StepsLeft(t)
          /\ AtRest(t) /\ ~AtRest(t)' => StepsLeft(t)' <= 3 * loc'[t].count + 3
          /\ StepsLeft(t)' >= 0 /\ loc'[t].n <= loc'[t].count
          /\ pc[t] = "W_loadRead" /\ pc'[t] # pc[t] /\ loc[t].nxt = readIndex_
                => Done(t, "Write")' /\ ~ret'[t].b
          /\ pc[t] = "R_loadWrite" /\ pc'[t] # pc[t] /\ loc[t].cur = writeIndex_
                => Done(t, "Read")' /\ ~ret'[t].b
      ]_vars

\* C11 witness: a WriteBatch of MaxBatch values is one step from its return
\* with every value constructed, while the consumer has not moved since it
\* began a ReadBatch.
C11_BatchRanToCount ==
    /\ op["producer"] = "WriteBatch" /\ pc["producer"] = "WB_store"
    /\ loc["producer"].count = MaxBatch /\ loc["producer"].n = MaxBatch
    /\ op["consumer"] = "ReadBatch" /\ pc["consumer"] = "RB_loadRead"

\* C12: with both threads scheduled fairly and a capacity of at least 2, the
\* producer retrying Write and the consumer retrying Read both finish: all
\* MaxItems values are eventually accepted and delivered in order, with no
\* call left in progress.
C12_BothFinish ==
    (Capacity >= 2) =>
        <>(Len(accepted) = MaxItems /\ delivered = Source /\ Quiescent)

\* C12 witness: with capacity 2 the producer's last Write was refused (full)
\* and, after the consumer drained the buffer, the consumer's last Read was
\* refused too (empty), with values still to come.
C12_RefusedOnBothSides ==
    /\ Capacity = 2
    /\ Done("producer", "Write") /\ ~ret["producer"].b
    /\ Done("consumer", "Read") /\ ~ret["consumer"].b
    /\ Len(delivered) < MaxItems

\* C13: in every step of every interleaving of the producer (Write,
\* WriteBatch) and the consumer (Read, ReadBatch), a slot changes only from
\* empty to holding the producer's next source value (constructed by the
\* producer), from holding a value to moved-from (by the consumer, which
\* receives exactly that value), or from moved-from to empty (destroyed by
\* the consumer); no construct over a live element, no move from or destroy
\* of a slot without one ever happens, so every element is constructed once
\* and destroyed once.
C13_SlotLifecycle ==
    [][ /\ faults' = {}
        /\ \A i \in Slots :
              buffer_'[i] # buffer_[i] =>
                  \/ /\ buffer_[i].st = "dead"
                     /\ pc'["producer"] # pc["producer"]
                     /\ buffer_'[i] = LiveSlot(nextVal + loc["producer"].n)
                  \/ /\ buffer_[i].st = "live"
                     /\ pc'["consumer"] # pc["consumer"]
                     /\ buffer_'[i] = MovedSlot
                     /\ out'[loc["consumer"].n + 1] = <<buffer_[i].val>>
                  \/ /\ buffer_[i].st = "moved"
                     /\ pc'["consumer"] # pc["consumer"]
                     /\ buffer_'[i] = DeadSlot
      ]_vars

\* C13 witness: capacity 4, the producer is about to construct the second
\* element of a WriteBatch while the consumer, inside a ReadBatch, has moved
\* an element out and is about to destroy it.
C13_ConstructBesideDestroy ==
    /\ Capacity = 4
    /\ op["producer"] = "WriteBatch" /\ pc["producer"] = "WB_construct"
    /\ loc["producer"].n = 1
    /\ op["consumer"] = "ReadBatch" /\ pc["consumer"] = "RB_destroy"
    /\ buffer_[loc["consumer"].cur] = MovedSlot
    /\ Len(delivered) >= 1

\* The indices in the half-open range [readIndex_, writeIndex_) modulo
\* Capacity.
PublishedRange ==
    {i \in Slots : (i - readIndex_ + Capacity) % Capacity
                       < (writeIndex_ - readIndex_ + Capacity) % Capacity}

\* The slots touched so far by the call in progress on thread t, by kind of
\* effect; none once the call has returned.
InProgress(t, kind) ==
    IF AtRest(t) THEN {}
    ELSE {fx[t][k].i : k \in {j \in 1 .. Len(fx[t]) : fx[t][j].k = kind}}

\* C14 (as stated): in every reachable state a slot holds an element exactly
\* when its index lies in [readIndex_, writeIndex_) modulo Capacity.
C14_LiveIffPublished == LiveSlots = PublishedRange

\* C14 (amended): in every reachable state a slot holds an element exactly
\* when its index lies in [readIndex_, writeIndex_) modulo Capacity or the
\* producer's call in progress has constructed it and not yet published it,
\* and the consumer's call in progress has not already destroyed it; so
\* whenever no call is in progress the two cursors alone decide.
C14_LiveIffPublishedOrInProgress ==
    /\ LiveSlots = (PublishedRange \cup InProgress("producer", "construct"))
                       \ InProgress("consumer", "destroy")
    /\ Quiescent => LiveSlots = PublishedRange

\* C14 witness: a WriteBatch has constructed two elements it has not yet
\* published while a Read has destroyed the oldest element and not yet
\* published that.
C14_BothSidesUnpublished ==
    /\ op["producer"] = "WriteBatch" /\ pc["producer"] = "WB_store"
    /\ loc["producer"].n = 2
    /\ op["consumer"] = "Read" /\ pc["consumer"] = "R_store"
    /\ LiveSlots # PublishedRange

\* The stores to the named cursor that the current or last call of thread t
\* has performed, in order.
StoresOf(t, cursor) == SelectSeq(fx[t], LAMBDA e : e.k = "store " \o cursor)

\* C15 (as stated): every WriteBatch call returns having performed exactly
\* one store to writeIndex_ and every ReadBatch call exactly one store to
\* readIndex_, and during a batch the published cursor still has its value
\* from before the call.
C15_ExactlyOneStore ==
    /\ Done("producer", "WriteBatch") => Len(StoresOf("producer", "writeIndex_")) = 1
    /\ Done("consumer", "ReadBatch") => Len(StoresOf("consumer", "readIndex_")) = 1
    /\ op["producer"] = "WriteBatch" /\ ~AtRest("producer")
          => writeIndex_ = pre["producer"].w
    /\ op["consumer"] = "ReadBatch" /\ ~AtRest("consumer")
          => readIndex_ = pre["consumer"].r

\* A batch of thread t on its own cursor (value at entry: before) stores to
\* it at most once: while the call runs it has not stored and the cursor is
\* unchanged; on return it has stored once, as its last effect, the entry
\* value advanced by the returned count, if that count is positive, and not
\* at all if the count is 0.
SinglePublish(t, name, cursor, published, before) ==
    LET st == StoresOf(t, cursor)
        after == (before + ret[t].n) % Capacity
    IN  /\ op[t] = name /\ ~AtRest(t) => st = <<>> /\ published = before
        /\ Done(t, name) /\ ret[t].n > 0 =>
              /\ Len(st) = 1 /\ st[1].i = after
              /\ fx[t][Len(fx[t])] = st[1]
              /\ published = after
        /\ Done(t, name) /\ ret[t].n = 0 => st = <<>> /\ published = before

\* C15 (amended): every WriteBatch call performs at most one store to
\* writeIndex_ and every ReadBatch call at most one store to readIndex_:
\* exactly one, as the last effect of the call and with the final cursor
\* value, when it transferred at least one element, and none when it
\* transferred nothing; during a batch the published cursor still has its
\* value from before the call.
C15_AtMostOneStore ==
    /\ SinglePublish("producer", "WriteBatch", "writeIndex_", writeIndex_,
                     pre["producer"].w)
    /\ SinglePublish("consumer", "ReadBatch", "readIndex_", readIndex_,
                     pre["consumer"].r)

\* C15 witness: a WriteBatch asked for MaxBatch values has returned 0 without
\* a store, while a ReadBatch that has taken an element out has not yet
\* published readIndex_.
C15_NoStoreWhenNothingWritten ==
    /\ Done("producer", "WriteBatch") /\ ret["producer"].n = 0
    /\ loc["producer"].count = MaxBatch /\ fx["producer"] = <<>>
    /\ op["consumer"] = "ReadBatch" /\ pc["consumer"] = "RB_store"
    /\ loc["consumer"].n = 1 /\ readIndex_ = pre["consumer"].r

\* Thread t takes a step of a call of one of the named operations.
StepsIn(t, names) == pc'[t] # pc[t] /\ op'[t] \in names

\* The number of elements the transfer call in progress on thread t has
\* moved in or out when it publishes.
Transferred(t) == IF op[t] \in {"Write", "Read"} THEN 1 ELSE loc[t].n

\* C16: no step of Write or WriteBatch changes readIndex_ or logs a store to
\* it, no step of Read or ReadBatch changes writeIndex_ or logs a store to
\* it, and no step of Size, IsEmpty, IsFull or GetCapacity changes a cursor
\* or a slot or logs any effect; writeIndex_ changes only in a step of the
\* producer's Write or WriteBatch, forward by the number k >= 1 of elements
\* written and never onto readIndex_ (at most Capacity-1 elements between
\* the cursors), and readIndex_ only in a step of the consumer's Read or
\* ReadBatch, forward by the number k >= 1 of elements read and never past
\* writeIndex_.
C16_CursorOwnership ==
    [][ /\ \A t \in Threads :
              /\ StepsIn(t, {"Write", "WriteBatch"}) =>
                    /\ readIndex_' = readIndex_
                    /\ StoresOf(t, "readIndex_")' = <<>>
              /\ StepsIn(t, {"Read", "ReadBatch"}) =>
                    /\ writeIndex_' = writeIndex_
                    /\ StoresOf(t, "writeIndex_")' = <<>>
              /\ StepsIn(t, {"Size", "IsEmpty", "IsFull", "GetCapacity"}) =>
                    shared' = shared /\ fx'[t] = <<>>
        /\ writeIndex_' # writeIndex_ =>
              /\ StepsIn("producer", {"Write", "WriteBatch"})
              /\ Transferred("producer") >= 1
              /\ writeIndex_' = (writeIndex_ + Transferred("producer")) % Capacity
              /\ Size + Transferred("producer") <= Capacity - 1
        /\ readIndex_' # readIndex_ =>
              /\ StepsIn("consumer", {"Read", "ReadBatch"})
              /\ Transferred("consumer") >= 1
              /\ readIndex_' = (readIndex_ + Transferred("consumer")) % Capacity
              /\ Transferred("consumer") <= Size
      ]_vars

\* C16 witness: the consumer thread's Size() has returned 1 and the producer
\* thread's IsFull() is between its two loads, after two values were
\* delivered and with a third value accepted.
C16_ObserversAfterTransfers ==
    /\ Done("consumer", "Size") /\ ret["consumer"].n = 1
    /\ op["producer"] = "IsFull" /\ pc["producer"] = "F_loadRead"
    /\ Len(delivered) = 2 /\ Len(accepted) = 3

\* C17: whenever no call is in progress, after any sequence of Write,
\* WriteBatch, Read, ReadBatch and Clear calls, Size() is the number of slots
\* holding an element and the number of values written and neither read nor
\* cleared since; IsEmpty() holds exactly when Size() is 0 and IsFull()
\* exactly when Size() is Capacity-1.
C17_SizeCountsLive ==
    Quiescent =>
        /\ Size = Cardinality(LiveSlots)
        /\ Size = Len(Pending)
        /\ IsEmpty <=> (Size = 0)
        /\ IsFull <=> (Size = Capacity - 1)

\* C17 witness: capacity 4 between calls with the write cursor wrapped to 0
\* behind the read cursor at 1: Size() takes its second branch and gives 3,
\* and IsFull() holds.
C17_WrappedFull ==
    /\ Quiescent /\ Capacity = 4
    /\ writeIndex_ = 0 /\ readIndex_ = 1
    /\ Size = 3 /\ IsFull /\ ~IsEmpty

\* The bad states of C18, each as it shows once no call is in progress: a
\* construct over a live element, a move from or a destroy of a slot that
\* holds none (a slot outside the live range treated as live, an element
\* destroyed twice); a slot that holds an element outside the published
\* range or none inside it (an element never destroyed); a value reported
\* written that was neither delivered nor cleared and is not in the buffer
\* (an element never readable).
LifecycleBroken ==
    faults \cap {"construct over live", "move from non-live", "destroy of dead"} # {}

ElementStranded == Quiescent /\ LiveSlots # PublishedRange

ElementLost == Quiescent /\ Kept # delivered \o Contents

BadState == LifecycleBroken \/ ElementStranded \/ ElementLost

\* C18: with either thread free to call Clear at any time, every reachable
\* state in which no Clear has overlapped a call of the other thread is
\* free of the bad states; the witness shows an overlap that reaches one.
C18_ClearNeedsExclusivity ==
    "Clear without exclusive access" \notin faults => ~BadState

\* C18 witness: a Clear overlapped a call of the other thread and, with both
\* threads back at rest, a value whose write was reported successful has
\* been neither delivered nor cleared and is not in the buffer.
C18_RaceLosesElement ==
    /\ "Clear without exclusive access" \in faults
    /\ ElementLost
    /\ ~LifecycleBroken

\* The last n elements of sequence s.
Last(s, n) == SubSeq(s, Len(s) - n + 1, Len(s))

\* C19: with the producer mixing Write and WriteBatch and the consumer mixing
\* Read and ReadBatch, interleaved step by step, the values delivered so far
\* are at every moment a prefix of the values reported written so far, which
\* are a prefix of the producer's source; a WriteBatch that returned n
\* reported the first n values of its input, in order, and a ReadBatch that
\* returned n delivered the contents of its first n cells, in order.
C19_BatchFifo ==
    /\ IsPrefix(delivered, accepted)
    /\ IsPrefix(accepted, Source)
    /\ Done("producer", "WriteBatch") =>
          Last(accepted, ret["producer"].n) = SubSeq(src, 1, ret["producer"].n)
    /\ Done("consumer", "ReadBatch") =>
          Last(delivered, ret["consumer"].n)
              = [k \in 1 .. ret["consumer"].n |-> out[k][1]]

\* C19 witness: a ReadBatch has returned 2, after an earlier call delivered
\* one value, three values delivered in all, while the producer is inside a
\* Write of the fourth value that has constructed and not yet published.
C19_MixedCallsOverlap ==
    /\ Done("consumer", "ReadBatch") /\ ret["consumer"].n = 2
    /\ delivered = <<0, 1, 2>>
    /\ op["producer"] = "Write" /\ pc["producer"] = "W_store"
    /\ src = <<3>>

\* Write and Read as whole calls on a buffer state [buf, r, w], as they run
\* with no other thread: the state they leave and what they return.
WriteOn(bs, v) ==
    LET nextWrite == IncrementIndex(bs.w)
    IN  IF nextWrite = bs.r
        THEN [st |-> bs, ok |-> FALSE]
        ELSE [st |-> [bs EXCEPT !.buf[bs.w] = LiveSlot(v), !.w = nextWrite],
              ok |-> TRUE]

ReadOn(bs) ==
    IF bs.r = bs.w
    THEN [st |-> bs, ok |-> FALSE, val |-> <<>>]
    ELSE [st |-> [bs EXCEPT !.buf[bs.r] = DeadSlot, !.r = IncrementIndex(bs.r)],
          ok |-> TRUE, val |-> <<bs.buf[bs.r].val>>]

\* Write(values[0]), Write(values[1]), ... until one returns false or count
\* calls were made; n counts the calls that returned true.
RECURSIVE RepeatWrite(_, _, _, _)
RepeatWrite(bs, values, n, count) ==
    IF n = count THEN [st |-> bs, n |-> n]
    ELSE LET w == WriteOn(bs, values[n + 1])
         IN  IF w.ok THEN RepeatWrite(w.st, values, n + 1, count)
             ELSE [st |-> bs, n |-> n]

\* Read(values[0]), Read(values[1]), ... until one returns false or count
\* calls were made.
RECURSIVE RepeatRead(_, _, _, _)
RepeatRead(bs, values, n, count) ==
    IF n = count THEN [st |-> bs, n |-> n, values |-> values]
    ELSE LET r == ReadOn(bs)
         IN  IF r.ok
             THEN RepeatRead(r.st, [values EXCEPT ![n + 1] = r.val], n + 1, count)
             ELSE [st |-> bs, n |-> n, values |-> values]

\* The buffer state at the entry of the call in progress on thread t, in
\* single-threaded use: the cursors at entry and the slots with the call's
\* own constructs and moves undone.
Entry(t) ==
    LET made == {k \in 1 .. Len(fx[t]) : fx[t][k].k = "construct"}
        took == {k \in 1 .. Len(fx[t]) : fx[t][k].k = "move"}
    IN  [buf |-> [i \in Slots |->
                    IF \E k \in made : fx[t][k].i = i THEN DeadSlot
                    ELSE IF \E k \in took : fx[t][k].i = i
                         THEN LiveSlot(fx[t][CHOOSE k \in took : fx[t][k].i = i].v)
                         ELSE buffer_[i]],
         r |-> pre[t].r,
         w |-> pre[t].w]

\* The buffer state a step leaves.
After == [buf |-> buffer_', r |-> readIndex_', w |-> writeIndex_']

\* The call of operation name in progress on thread t returns in this step.
Returns(t, name) == op[t] = name /\ ~AtRest(t) /\ pc'[t] = "done"

\* C20: in single-threaded use every Write and Read call leaves the state
\* and returns the value of the whole-call functions WriteOn and ReadOn, and
\* every WriteBatch(values, count) leaves the cursors and slots that
\* Write(values[0]), Write(values[1]), ... stopped at the first false or
\* after count calls leave, and returns the number of those Writes that
\* returned true; every ReadBatch(values, count) leaves the cursors, slots
\* and destination cells that the repeated Reads leave, and returns their
\* number.
C20_BatchIsRepeatedSingle ==
    [][ /\ Returns("producer", "Write") =>
              LET e == WriteOn(Entry("producer"), nextVal)
              IN  After = e.st /\ ret'["producer"].b = e.ok
        /\ Returns("consumer", "Read") =>
              LET e == ReadOn(Entry("consumer"))
              IN  After = e.st /\ ret'["consumer"].b = e.ok /\ out'[1] = e.val
        /\ Returns("producer", "WriteBatch") =>
              LET e == RepeatWrite(Entry("producer"), src, 0, loc["producer"].count)
              IN  After = e.st /\ ret'["producer"].n = e.n
        /\ Returns("consumer", "ReadBatch") =>
              LET e == RepeatRead(Entry("consumer"),
                                  [k \in 1 .. loc["consumer"].count |-> <<>>],
                                  0, loc["consumer"].count)
              IN  After = e.st /\ ret'["consumer"].n = e.n /\ out' = e.values
      ]_vars

\* C20 witness: capacity 2; a ReadBatch asked for two elements returned 1,
\* as the second Read would have found the buffer empty, and then a
\* WriteBatch given two values returned 1, as the second Write would have
\* found it full.
C20_BothBatchesStoppedEarly ==
    /\ Capacity = 2
    /\ Done("consumer", "ReadBatch")
    /\ loc["consumer"].count = 2 /\ ret["consumer"].n = 1
    /\ Done("producer", "WriteBatch")
    /\ loc["producer"].count = 2 /\ ret["producer"].n = 1
    /\ pre["producer"].r = readIndex_ /\ IsFull

\* C21: whenever a Size() call returns while the other thread runs, its
\* result lies in 0 .. Capacity-1; returned to the consumer thread it is at
\* most the number of elements published and not yet read at that moment,
\* all of them live; returned to the producer thread it is at least the
\* number of slots holding an element and at least the number of elements
\* between the published cursors at that moment.
C21_SizeStaleSafely ==
    [][ \A t \in Threads :
          Returns(t, "Size") =>
              /\ ret'[t].n \in 0 .. Capacity - 1
              /\ t = "consumer" =>
                    /\ ret'[t].n <= Size'
                    /\ ret'[t].n <= Cardinality(LiveSlots' \cap PublishedRange')
              /\ t = "producer" =>
                    /\ ret'[t].n >= Size'
                    /\ ret'[t].n >= Cardinality(LiveSlots')
      ]_vars

\* C21 witness: the producer thread's Size() has loaded readIndex_, the
\* consumer has published a read since, and the call is about to return a
\* count larger than the number of elements now in the buffer.
C21_ProducerSeesStaleRead ==
    /\ op["producer"] = "Size" /\ pc["producer"] = "S_loadWrite"
    /\ loc["producer"].cur # readIndex_
    /\ SizeOf(loc["producer"].cur, writeIndex_) > Size
    /\ SizeOf(loc["producer"].cur, writeIndex_) > Cardinality(LiveSlots)

=============================================================================
